---- MODULE Spec2Model ----
(***************************************************************************)
(* A model of pdf_extractor.py: the PDFExtractor class (backend selection, *)
(* page-range extraction on the two backends, the section locator, the     *)
(* three formatters) and the command-line driver main().                   *)
(*                                                                         *)
(* Python values are modelled as follows.                                  *)
(*   str            a sequence of one-character strings                    *)
(*   Optional[T]    None is <<>>, a present value v is <<v>>               *)
(*   page record    [page_number |-> n, text |-> t]                        *)
(*   (start, end)   the tuple <<start, end>>                               *)
(***************************************************************************)
EXTENDS Integers, Sequences, FiniteSets, TLC

VARIABLES
    path_exists,      \* os.path.exists(pdf_path)
    HAS_PYMUPDF,      \* module flag set by the import at lines 17-22
    HAS_PDFPLUMBER,   \* module flag set by the import at lines 24-29
    doc,              \* the PDF: the text of each page, in page order
    args,             \* the parsed command line (argparse namespace)
    file0,            \* the --output file before the run (None: no such file)
    backend,          \* self.backend
    handles,          \* number of document handles currently open
    ext,              \* the frame of the running extract_pages call
    fnd,              \* the frame of the running find_section call
    main,             \* the frame of main()
    stdout,           \* what has been written to standard output
    outfile,          \* the --output file now (None: no such file)
    exit_code         \* main()'s return value (None while running)

inputs == <<path_exists, HAS_PYMUPDF, HAS_PDFPLUMBER, doc, args, file0>>
vars == <<path_exists, HAS_PYMUPDF, HAS_PDFPLUMBER, doc, args, file0, backend,
          handles, ext, fnd, main, stdout, outfile, exit_code>>

(***************************************************************************)
(* Bounds and input alphabets.                                             *)
(***************************************************************************)
\* Largest page count of a document handed to the library operations.
MaxPages == 3
\* Largest page count of a document handed to a command-line run.
MaxCliPages == 2

None == <<>>
Some(v) == <<v>>

Min(a, b) == IF a < b THEN a ELSE b
Max(a, b) == IF a > b THEN a ELSE b

\* Python truthiness of an Optional[int]: None and 0 are false.
IntTruthy(o) == o # None /\ o[1] # 0
\* Python truthiness of an Optional[str]: None and "" are false.
StrTruthy(o) == o # None /\ o[1] # <<>>

(***************************************************************************)
(* String operations used by the program.                                  *)
(***************************************************************************)
Digits == {"0", "1", "2", "3", "4", "5", "6", "7", "8", "9"}
Whitespace == {" ", "\t", "\n", "\r", "\f"}

\* c * n
RECURSIVE Repeat(_, _)
Repeat(c, n) == IF n <= 0 THEN <<>> ELSE <<c>> \o Repeat(c, n - 1)

\* sep.join(items)
RECURSIVE Join(_, _)
Join(items, sep) ==
    IF Len(items) = 0 THEN <<>>
    ELSE IF Len(items) = 1 THEN items[1]
    ELSE items[1] \o sep \o Join(Tail(items), sep)

\* pattern in text
Contains(pattern, text) ==
    \E i \in 0..(Len(text) - Len(pattern)) :
        SubSeq(text, i + 1, i + Len(pattern)) = pattern

\* text.split('\n'): always at least one line
RECURSIVE SplitLines(_)
SplitLines(text) ==
    IF \A i \in 1..Len(text) : text[i] # "\n" THEN <<text>>
    ELSE LET k == CHOOSE i \in 1..Len(text) :
                      /\ text[i] = "\n"
                      /\ \A j \in 1..(i - 1) : text[j] # "\n"
         IN  <<SubSeq(text, 1, k - 1)>> \o SplitLines(SubSeq(text, k + 1, Len(text)))

\* line.lstrip()
RECURSIVE LStrip(_)
LStrip(s) == IF Len(s) > 0 /\ s[1] \in Whitespace THEN LStrip(Tail(s)) ELSE s

\* line.rstrip()
RECURSIVE RStrip(_)
RStrip(s) ==
    IF Len(s) > 0 /\ s[Len(s)] \in Whitespace
    THEN RStrip(SubSeq(s, 1, Len(s) - 1)) ELSE s

\* line.strip()
Strip(s) == RStrip(LStrip(s))

\* line.split(): the maximal runs of non-whitespace characters
RECURSIVE Split(_)
Split(s) ==
    LET t == LStrip(s) IN
    IF Len(t) = 0 THEN <<>>
    ELSE LET stops == {i \in 1..Len(t) : t[i] \in Whitespace}
             k == IF stops = {} THEN Len(t) + 1
                  ELSE CHOOSE i \in stops : \A j \in stops : i <= j
         IN  <<SubSeq(t, 1, k - 1)>> \o Split(SubSeq(t, k, Len(t)))

\* s.startswith(tuple('0123456789'))
StartsWithDigit(s) == Len(s) > 0 /\ s[1] \in Digits

\* str(n) for n >= 0
RECURSIVE Str(_)
Str(n) ==
    LET d == <<"0", "1", "2", "3", "4", "5", "6", "7", "8", "9">>[(n % 10) + 1]
    IN  IF n < 10 THEN <<d>> ELSE Str(n \div 10) \o <<d>>

(***************************************************************************)
(* PDFExtractor.extract_pages and the two backend loops.                   *)
(***************************************************************************)
ExtIdle ==
    [pc |-> "idle", start_page |-> None, end_page |-> None,
     page_num |-> 0, pages |-> <<>>, error |-> ""]

\* The frame of a call extract_pages(start_page, end_page) that has just begun.
ExtCall(start_page, end_page) ==
    [pc |-> "called", start_page |-> start_page, end_page |-> end_page,
     page_num |-> 0, pages |-> <<>>, error |-> ""]

\* total_pages = len(doc) / len(pdf.pages)
total_pages == Len(doc)

\* the conversion to a 0-based index left out
StartIndexOffByOne(start_page) == IF IntTruthy(start_page) THEN start_page[1] ELSE 0

\* start = (start_page - 1) if start_page else 0
StartIndex(start_page) == IF IntTruthy(start_page) THEN start_page[1] - 1 ELSE 0

\* end = end_page if end_page else total_pages
EndIndex(end_page, total) == IF IntTruthy(end_page) THEN end_page[1] ELSE total

\* the stop of range(start, min(end, total_pages))
RangeStop(end_page, total) == Min(EndIndex(end_page, total), total)

\* page.get_text() of the 0-indexed page: always a str
GetText(page_num) == doc[page_num + 1]

\* page.extract_text() of the 0-indexed page: None when the page is textless
ExtractText(page_num) ==
    IF doc[page_num + 1] = <<>> THEN None ELSE Some(doc[page_num + 1])

\* text or ""
OrEmpty(text) == IF StrTruthy(text) THEN text[1] ELSE <<>>

PageRecord(page_num, text) == [page_number |-> page_num + 1, text |-> text]

\* extract_pages: dispatch on self.backend
ExtractPagesDispatch ==
    /\ ext.pc = "called"
    /\ backend \in {"pymupdf", "pdfplumber"}
    /\ ext' = [ext EXCEPT !.pc = backend]
    /\ UNCHANGED <<inputs, backend, handles, fnd, main, stdout, outfile, exit_code>>

\* extract_pages: raise ValueError("Unknown backend")
ExtractPagesUnknownBackend ==
    /\ ext.pc = "called"
    /\ backend \notin {"pymupdf", "pdfplumber"}
    /\ ext' = [ext EXCEPT !.pc = "raised", !.error = "ValueError"]
    /\ UNCHANGED <<inputs, backend, handles, fnd, main, stdout, outfile, exit_code>>

\* _extract_with_pymupdf: "import pymupdf" fails when the library is absent
PymupdfImportError ==
    /\ ext.pc = "pymupdf"
    /\ ~HAS_PYMUPDF
    /\ ext' = [ext EXCEPT !.pc = "raised", !.error = "ImportError"]
    /\ UNCHANGED <<inputs, backend, handles, fnd, main, stdout, outfile, exit_code>>

\* _extract_with_pymupdf: open the document and set up the loop
PymupdfOpen ==
    /\ ext.pc = "pymupdf"
    /\ HAS_PYMUPDF
    /\ handles' = handles + 1
    /\ ext' = [ext EXCEPT !.pc = "pymupdf_loop",
                          !.page_num = StartIndex(ext.start_page),
                          !.pages = <<>>]
    /\ UNCHANGED <<inputs, backend, fnd, main, stdout, outfile, exit_code>>

\* _extract_with_pymupdf: one iteration of the page loop
PymupdfPage ==
    /\ ext.pc = "pymupdf_loop"
    /\ ext.page_num < RangeStop(ext.end_page, total_pages)
    /\ ext' = [ext EXCEPT
                 !.pages = Append(@, PageRecord(ext.page_num, GetText(ext.page_num))),
                 !.page_num = @ + 1]
    /\ UNCHANGED <<inputs, backend, handles, fnd, main, stdout, outfile, exit_code>>

\* _extract_with_pymupdf: doc[page_num] or page.get_text() raises; the
\* exception leaves the function before doc.close() is reached
PymupdfPageRaise ==
    /\ ext.pc = "pymupdf_loop"
    /\ ext.page_num < RangeStop(ext.end_page, total_pages)
    /\ ext' = [ext EXCEPT !.pc = "raised", !.error = "ExtractionError"]
    /\ UNCHANGED <<inputs, backend, handles, fnd, main, stdout, outfile, exit_code>>

\* _extract_with_pymupdf: doc.close(); return pages
PymupdfClose ==
    /\ ext.pc = "pymupdf_loop"
    /\ ext.page_num >= RangeStop(ext.end_page, total_pages)
    /\ handles' = handles - 1
    /\ ext' = [ext EXCEPT !.pc = "returned"]
    /\ UNCHANGED <<inputs, backend, fnd, main, stdout, outfile, exit_code>>

\* _extract_with_pdfplumber: "import pdfplumber" fails when the library is absent
PdfplumberImportError ==
    /\ ext.pc = "pdfplumber"
    /\ ~HAS_PDFPLUMBER
    /\ ext' = [ext EXCEPT !.pc = "raised", !.error = "ImportError"]
    /\ UNCHANGED <<inputs, backend, handles, fnd, main, stdout, outfile, exit_code>>

\* _extract_with_pdfplumber: enter the with block and set up the loop
PdfplumberOpen ==
    /\ ext.pc = "pdfplumber"
    /\ HAS_PDFPLUMBER
    /\ handles' = handles + 1
    /\ ext' = [ext EXCEPT !.pc = "pdfplumber_loop",
                          !.page_num = StartIndex(ext.start_page),
                          !.pages = <<>>]
    /\ UNCHANGED <<inputs, backend, fnd, main, stdout, outfile, exit_code>>

\* _extract_with_pdfplumber: one iteration of the page loop
PdfplumberPage ==
    /\ ext.pc = "pdfplumber_loop"
    /\ ext.page_num < RangeStop(ext.end_page, total_pages)
    /\ ext' = [ext EXCEPT
                 !.pages = Append(@, PageRecord(ext.page_num,
                                                OrEmpty(ExtractText(ext.page_num)))),
                 !.page_num = @ + 1]
    /\ UNCHANGED <<inputs, backend, handles, fnd, main, stdout, outfile, exit_code>>

\* _extract_with_pdfplumber: pdf.pages[page_num] or page.extract_text() raises;
\* the with block closes the document as the exception leaves it
PdfplumberPageRaise ==
    /\ ext.pc = "pdfplumber_loop"
    /\ ext.page_num < RangeStop(ext.end_page, total_pages)
    /\ handles' = handles - 1
    /\ ext' = [ext EXCEPT !.pc = "raised", !.error = "ExtractionError"]
    /\ UNCHANGED <<inputs, backend, fnd, main, stdout, outfile, exit_code>>

\* _extract_with_pdfplumber: leave the with block; return pages
PdfplumberClose ==
    /\ ext.pc = "pdfplumber_loop"
    /\ ext.page_num >= RangeStop(ext.end_page, total_pages)
    /\ handles' = handles - 1
    /\ ext' = [ext EXCEPT !.pc = "returned"]
    /\ UNCHANGED <<inputs, backend, fnd, main, stdout, outfile, exit_code>>

(***************************************************************************)
(* PDFExtractor.find_section.                                              *)
(***************************************************************************)
FndIdle ==
    [pc |-> "idle", section_pattern |-> <<>>, start_page |-> None,
     end_page |-> None, result |-> None, error |-> ""]

\* The frame of a call find_section(section_pattern, start_page, end_page).
FndCall(section_pattern, start_page, end_page) ==
    [pc |-> "called", section_pattern |-> section_pattern,
     start_page |-> start_page, end_page |-> end_page,
     result |-> None, error |-> ""]

\* the comparison of the first token with the pattern left out
NextSectionLineAnyDigit(line, section_pattern) == StartsWithDigit(Strip(line))

\* the test of one line: it starts, once stripped, with a digit and its first
\* token is not the pattern
NextSectionLine(line, section_pattern) ==
    /\ StartsWithDigit(Strip(line))
    /\ LET parts == Split(line)
       IN  Len(parts) > 0 /\ parts[1] # section_pattern

\* the loop over text.split('\n'): does some line return from the scan
HasNextSectionLine(text, section_pattern) ==
    LET lines == SplitLines(text)
    IN  \E k \in 1..Len(lines) : NextSectionLine(lines[k], section_pattern)

\* one page too few
SectionEndTwoBefore(page_number) == page_number - 2

\* section_end = page_data["page_number"] - 1
SectionEndBefore(page_number) == page_number - 1

\* the position in the extracted list taken for the page number
LastPageIndex(pages) == Len(pages)

\* section_end = pages[-1]["page_number"]
LastPageNumber(pages) == pages[Len(pages)].page_number

\* the scan of find_section from the i-th extracted page on, with the
\* section_start found so far; the value is the function's return value
RECURSIVE ScanPages(_, _, _, _)
ScanPages(pages, i, section_start, section_pattern) ==
    IF i > Len(pages)
    THEN IF section_start # None
         THEN <<section_start[1], LastPageNumber(pages)>>
         ELSE None
    ELSE LET page_data == pages[i]
             text == page_data.text
         IN  IF section_start = None /\ Contains(section_pattern, text)
             THEN ScanPages(pages, i + 1, Some(page_data.page_number), section_pattern)
             ELSE IF section_start # None /\ HasNextSectionLine(text, section_pattern)
             THEN <<section_start[1], SectionEndBefore(page_data.page_number)>>
             ELSE ScanPages(pages, i + 1, section_start, section_pattern)

\* find_section: pages = self.extract_pages(start_page, end_page)
FindSectionExtract ==
    /\ fnd.pc = "called"
    /\ ext.pc = "idle"
    /\ ext' = ExtCall(fnd.start_page, fnd.end_page)
    /\ fnd' = [fnd EXCEPT !.pc = "extracting"]
    /\ UNCHANGED <<inputs, backend, handles, main, stdout, outfile, exit_code>>

\* find_section: the scan over the extracted pages and the return
FindSectionScan ==
    /\ fnd.pc = "extracting"
    /\ ext.pc = "returned"
    /\ fnd' = [fnd EXCEPT !.pc = "returned",
                          !.result = ScanPages(ext.pages, 1, None, fnd.section_pattern)]
    /\ ext' = ExtIdle
    /\ UNCHANGED <<inputs, backend, handles, main, stdout, outfile, exit_code>>

\* find_section: an exception of extract_pages passes through
FindSectionRaise ==
    /\ fnd.pc = "extracting"
    /\ ext.pc = "raised"
    /\ fnd' = [fnd EXCEPT !.pc = "raised", !.error = ext.error]
    /\ ext' = ExtIdle
    /\ UNCHANGED <<inputs, backend, handles, main, stdout, outfile, exit_code>>

(***************************************************************************)
(* Inputs of the library-level specifications.                             *)
(***************************************************************************)
\* documents of 1..n pages whose page texts come from texts
DocsOver(texts, n) == UNION {[1..k -> texts] : k \in 1..n}

\* page texts that differ only in being textless or not
PlainTexts == {<<>>, <<"a">>}

\* page texts for the section locator, with the labels below:
\*   ""            textless
\*   "a3.2"        holds "3.2" and "3" but no digit-leading line
\*   "3.2 a"       a digit-leading line whose first token is "3.2"
\*   "a\n 3.3"     a digit-leading line (once stripped) with first token "3.3"
SectionTexts ==
    {<<>>,
     <<"a", "3", ".", "2">>,
     <<"3", ".", "2", " ", "a">>,
     <<"a", "\n", " ", "3", ".", "3">>}

Labels == {<<"3", ".", "2">>, <<"3">>, <<>>}

\* a six-page document: page 5 holds the label "3.2", page 6 has a
\* digit-leading line with first token "3.3"
FixtureDoc ==
    << <<>>, <<>>, <<>>, <<>>,
       <<"3", ".", "2", " ", "a">>,
       <<"a", "\n", " ", "3", ".", "3">> >>

\* a page bound of a library call: unset, 0, or 1 .. one past the last page
PageArgs == {None} \cup {Some(n) : n \in 0..(MaxPages + 1)}

DefaultArgs ==
    [backend |-> "auto", start |-> None, end |-> None, section |-> None,
     search_start |-> None, search_end |-> None, output |-> None,
     format |-> "text", no_page_numbers |-> FALSE]

\* main() is not running: the extractor is used as a library
MainLib ==
    [pc |-> "lib", start_page |-> None, end_page |-> None, pages |-> <<>>,
     output |-> <<>>, error |-> ""]

InitLibrary ==
    /\ path_exists = TRUE
    /\ args = DefaultArgs
    /\ file0 = None
    /\ outfile = None
    /\ stdout = <<>>
    /\ exit_code = None
    /\ handles = 0
    /\ main = MainLib

\* one call extractor.extract_pages(start_page, end_page) on an extractor
\* built with an explicit backend name
InitExtract ==
    /\ InitLibrary
    /\ HAS_PYMUPDF \in BOOLEAN
    /\ HAS_PDFPLUMBER \in BOOLEAN
    /\ doc \in DocsOver(PlainTexts, MaxPages)
    /\ backend \in {"pymupdf", "pdfplumber", "fitz"}
    /\ fnd = FndIdle
    /\ \E s \in PageArgs, e \in PageArgs : ext = ExtCall(s, e)

NextExtract ==
    \/ ExtractPagesDispatch
    \/ ExtractPagesUnknownBackend
    \/ PymupdfImportError
    \/ PymupdfOpen
    \/ PymupdfPage
    \/ PymupdfPageRaise
    \/ PymupdfClose
    \/ PdfplumberImportError
    \/ PdfplumberOpen
    \/ PdfplumberPage
    \/ PdfplumberPageRaise
    \/ PdfplumberClose

SpecExtract == InitExtract /\ [][NextExtract]_vars

\* one call extractor.find_section(label, start_page, end_page) on an
\* extractor whose backend is installed
InitFind ==
    /\ InitLibrary
    /\ HAS_PYMUPDF = TRUE
    /\ HAS_PDFPLUMBER = TRUE
    /\ doc \in DocsOver(SectionTexts, MaxPages) \cup {FixtureDoc}
    /\ backend \in {"pymupdf", "pdfplumber"}
    /\ ext = ExtIdle
    /\ \E l \in Labels, s \in PageArgs, e \in PageArgs : fnd = FndCall(l, s, e)

NextFind ==
    \/ FindSectionExtract
    \/ FindSectionScan
    \/ FindSectionRaise
    \/ ExtractPagesDispatch
    \/ PymupdfOpen
    \/ PymupdfPage
    \/ PymupdfPageRaise
    \/ PymupdfClose
    \/ PdfplumberOpen
    \/ PdfplumberPage
    \/ PdfplumberPageRaise
    \/ PdfplumberClose

SpecFind == InitFind /\ [][NextFind]_vars

(***************************************************************************)
(* The formatters.                                                         *)
(***************************************************************************)
\* the width of the banner line of extract_to_text
SepWidth == 60

\* the lines extract_to_text appends for one page
TextLines(page_data, include_page_numbers) ==
    (IF include_page_numbers
     THEN << <<"\n">> \o Repeat("=", SepWidth),
             <<"P", "a", "g", "e", " ">> \o Str(page_data.page_number),
             Repeat("=", SepWidth) \o <<"\n">> >>
     ELSE <<>>)
    \o <<page_data.text>>

RECURSIVE TextLinesOf(_, _)
TextLinesOf(pages, include_page_numbers) ==
    IF Len(pages) = 0 THEN <<>>
    ELSE TextLines(pages[1], include_page_numbers)
         \o TextLinesOf(Tail(pages), include_page_numbers)

extract_to_text(pages, include_page_numbers) ==
    Join(TextLinesOf(pages, include_page_numbers), <<"\n">>)

\* the lines extract_to_markdown appends for one page
MarkdownLines(page_data) ==
    << <<"\n", "#", "#", " ", "P", "a", "g", "e", " ">>
           \o Str(page_data.page_number) \o <<"\n">>,
       page_data.text >>

RECURSIVE MarkdownLinesOf(_)
MarkdownLinesOf(pages) ==
    IF Len(pages) = 0 THEN <<>>
    ELSE MarkdownLines(pages[1]) \o MarkdownLinesOf(Tail(pages))

extract_to_markdown(pages) == Join(MarkdownLinesOf(pages), <<"\n">>)

\* json.dumps of one character of a string, ensure_ascii=False
JsonChar(c) ==
    CASE c = "\"" -> <<"\\", "\"">>
      [] c = "\\" -> <<"\\", "\\">>
      [] c = "\n" -> <<"\\", "n">>
      [] c = "\r" -> <<"\\", "r">>
      [] c = "\t" -> <<"\\", "t">>
      [] c = "\f" -> <<"\\", "f">>
      [] OTHER -> <<c>>

RECURSIVE JsonEscape(_)
JsonEscape(text) ==
    IF Len(text) = 0 THEN <<>> ELSE JsonChar(text[1]) \o JsonEscape(Tail(text))

JsonString(text) == <<"\"">> \o JsonEscape(text) \o <<"\"">>

\* json.dumps of one page record at nesting depth 1, indent=2
JsonObject(page_data) ==
    <<"{", "\n">>
    \o Repeat(" ", 4) \o JsonString(<<"p", "a", "g", "e", "_", "n", "u", "m", "b", "e", "r">>)
    \o <<":", " ">> \o Str(page_data.page_number) \o <<",", "\n">>
    \o Repeat(" ", 4) \o JsonString(<<"t", "e", "x", "t">>)
    \o <<":", " ">> \o JsonString(page_data.text) \o <<"\n">>
    \o Repeat(" ", 2) \o <<"}">>

RECURSIVE JsonItems(_)
JsonItems(pages) ==
    IF Len(pages) = 0 THEN <<>>
    ELSE <<Repeat(" ", 2) \o JsonObject(pages[1])>> \o JsonItems(Tail(pages))

extract_to_json(pages) ==
    IF Len(pages) = 0 THEN <<"[", "]">>
    ELSE <<"[", "\n">> \o Join(JsonItems(pages), <<",", "\n">>) \o <<"\n", "]">>

(***************************************************************************)
(* PDFExtractor.__init__.                                                  *)
(***************************************************************************)
\* the two availability tests in the other order
AutoBackendPrefersPdfplumber(has_pymupdf, has_pdfplumber) ==
    IF has_pdfplumber THEN [error |-> "", backend |-> "pdfplumber"]
    ELSE IF has_pymupdf THEN [error |-> "", backend |-> "pymupdf"]
    ELSE [error |-> "RuntimeError", backend |-> "unset"]

\* the backend "auto" resolves to, or the RuntimeError
AutoBackend(has_pymupdf, has_pdfplumber) ==
    IF has_pymupdf THEN [error |-> "", backend |-> "pymupdf"]
    ELSE IF has_pdfplumber THEN [error |-> "", backend |-> "pdfplumber"]
    ELSE [error |-> "RuntimeError", backend |-> "unset"]

\* the backend selected before the path is tested
ConstructBackendFirst(pdf_exists, backend_arg, has_pymupdf, has_pdfplumber) ==
    LET made == IF backend_arg = "auto"
                THEN AutoBackend(has_pymupdf, has_pdfplumber)
                ELSE [error |-> "", backend |-> backend_arg]
    IN  IF made.error # "" THEN made
        ELSE IF ~pdf_exists THEN [error |-> "FileNotFoundError", backend |-> made.backend]
        ELSE made

\* the outcome of PDFExtractor(pdf_path, backend): the exception raised, if
\* any, and self.backend
Construct(pdf_exists, backend_arg, has_pymupdf, has_pdfplumber) ==
    IF ~pdf_exists THEN [error |-> "FileNotFoundError", backend |-> "unset"]
    ELSE IF backend_arg = "auto" THEN AutoBackend(has_pymupdf, has_pdfplumber)
    ELSE [error |-> "", backend |-> backend_arg]

(***************************************************************************)
(* main().                                                                 *)
(***************************************************************************)
MainStart ==
    [pc |-> "start", start_page |-> None, end_page |-> None, pages |-> <<>>,
     output |-> <<>>, error |-> ""]

\* extractor = PDFExtractor(args.pdf_file, backend=args.backend)
MainConstruct ==
    /\ main.pc = "start"
    /\ LET made == Construct(path_exists, args.backend, HAS_PYMUPDF, HAS_PDFPLUMBER)
       IN  /\ backend' = made.backend
           /\ main' = IF made.error # ""
                      THEN [main EXCEPT !.pc = "raised", !.error = made.error]
                      ELSE [main EXCEPT !.pc = "constructed"]
    /\ UNCHANGED <<inputs, handles, ext, fnd, stdout, outfile, exit_code>>

\* if args.section: result = extractor.find_section(...)
MainSectionSearch ==
    /\ main.pc = "constructed"
    /\ StrTruthy(args.section)
    /\ fnd' = FndCall(args.section[1], args.search_start, args.search_end)
    /\ main' = [main EXCEPT !.pc = "finding"]
    /\ UNCHANGED <<inputs, backend, handles, ext, stdout, outfile, exit_code>>

\* if result: start_page, end_page = result
MainSectionFound ==
    /\ main.pc = "finding"
    /\ fnd.pc = "returned"
    /\ fnd.result # None
    /\ main' = [main EXCEPT !.pc = "ranged",
                            !.start_page = Some(fnd.result[1]),
                            !.end_page = Some(fnd.result[2])]
    /\ fnd' = FndIdle
    /\ UNCHANGED <<inputs, backend, handles, ext, stdout, outfile, exit_code>>

\* the "return 1" left out: the run goes on to the extraction
MainSectionNotFoundFallsThrough ==
    /\ main.pc = "finding"
    /\ fnd.pc = "returned"
    /\ fnd.result = None
    /\ main' = [main EXCEPT !.pc = "ranged"]
    /\ fnd' = FndIdle
    /\ UNCHANGED <<inputs, backend, handles, ext, stdout, outfile, exit_code>>

\* else: print("Section ... not found"); return 1
MainSectionNotFound ==
    /\ main.pc = "finding"
    /\ fnd.pc = "returned"
    /\ fnd.result = None
    /\ main' = [main EXCEPT !.pc = "exited"]
    /\ exit_code' = Some(1)
    /\ fnd' = FndIdle
    /\ UNCHANGED <<inputs, backend, handles, ext, stdout, outfile>>

\* else: start_page = args.start; end_page = args.end
MainDirectRange ==
    /\ main.pc = "constructed"
    /\ ~StrTruthy(args.section)
    /\ main' = [main EXCEPT !.pc = "ranged",
                            !.start_page = args.start,
                            !.end_page = args.end]
    /\ UNCHANGED <<inputs, backend, handles, ext, fnd, stdout, outfile, exit_code>>

\* pages = extractor.extract_pages(start_page, end_page): the call
MainExtract ==
    /\ main.pc = "ranged"
    /\ ext.pc = "idle"
    /\ ext' = ExtCall(main.start_page, main.end_page)
    /\ main' = [main EXCEPT !.pc = "extracting"]
    /\ UNCHANGED <<inputs, backend, handles, fnd, stdout, outfile, exit_code>>

\* the formatter main() selects by args.format
FormatOutput(pages, format, no_page_numbers) ==
    CASE format = "text" -> extract_to_text(pages, ~no_page_numbers)
      [] format = "markdown" -> extract_to_markdown(pages)
      [] format = "json" -> extract_to_json(pages)

\* pages = (the returned list); output = extractor.extract_to_<format>(pages)
MainFormat ==
    /\ main.pc = "extracting"
    /\ ext.pc = "returned"
    /\ main' = [main EXCEPT
                  !.pc = "formatted",
                  !.pages = ext.pages,
                  !.output = FormatOutput(ext.pages, args.format, args.no_page_numbers)]
    /\ ext' = ExtIdle
    /\ UNCHANGED <<inputs, backend, handles, fnd, stdout, outfile, exit_code>>

\* output_path.write_text(output) or print(output); return 0
MainWrite ==
    /\ main.pc = "formatted"
    /\ IF StrTruthy(args.output)
       THEN outfile' = Some(main.output) /\ UNCHANGED stdout
       ELSE stdout' = stdout \o main.output \o <<"\n">> /\ UNCHANGED outfile
    /\ main' = [main EXCEPT !.pc = "exited"]
    /\ exit_code' = Some(0)
    /\ UNCHANGED <<inputs, backend, handles, ext, fnd>>

\* output_path.write_text(output) or print(output) raises: the file is left
\* as it was (it could not be opened) or empty (it was opened for writing and
\* none of a non-empty payload reached it)
MainWriteRaise ==
    /\ main.pc = "formatted"
    /\ IF StrTruthy(args.output)
       THEN /\ outfile' \in {outfile} \cup
                            (IF main.output # <<>> THEN {Some(<<>>)} ELSE {})
            /\ UNCHANGED stdout
       ELSE UNCHANGED <<stdout, outfile>>
    /\ main' = [main EXCEPT !.pc = "raised", !.error = "OSError"]
    /\ UNCHANGED <<inputs, backend, handles, ext, fnd, exit_code>>

\* the exception, if any, that has reached the try block of main()
Raised ==
    IF main.pc = "raised" THEN main.error
    ELSE IF main.pc = "finding" /\ fnd.pc = "raised" THEN fnd.error
    ELSE IF main.pc = "extracting" /\ ext.pc = "raised" THEN ext.error
    ELSE ""

\* the handler returning 0
MainExceptReturnsZero ==
    /\ Raised # ""
    /\ main' = [main EXCEPT !.pc = "exited", !.error = Raised]
    /\ exit_code' = Some(0)
    /\ ext' = ExtIdle
    /\ fnd' = FndIdle
    /\ UNCHANGED <<inputs, backend, handles, stdout, outfile>>

\* except Exception as e: print the error and the traceback; return 1
MainExcept ==
    /\ Raised # ""
    /\ main' = [main EXCEPT !.pc = "exited", !.error = Raised]
    /\ exit_code' = Some(1)
    /\ ext' = ExtIdle
    /\ fnd' = FndIdle
    /\ UNCHANGED <<inputs, backend, handles, stdout, outfile>>

(***************************************************************************)
(* Inputs of a command-line run.                                           *)
(***************************************************************************)
\* page texts of the documents given to a run
CliTexts ==
    {<<>>,
     <<"3", ".", "2", " ", "a">>,
     <<"a", "\n", " ", "3", ".", "3">>}

\* the values of --start, --end, --search-start, --search-end
CliPageArgs == {None} \cup {Some(n) : n \in 1..MaxCliPages}

\* the values of --section: not given, the empty string, a label
CliSections == {None, Some(<<>>), Some(<<"3", ".", "2">>), Some(<<"3">>)}

OldContent == <<"o", "l", "d">>
OutputPath == <<"o", "u", "t">>

\* A run varies one group of inputs and keeps the other groups fixed:
\* the environment (file, libraries, --backend, --output and the file there),
InitCliEnvironment ==
    /\ path_exists \in BOOLEAN
    /\ HAS_PYMUPDF \in BOOLEAN
    /\ HAS_PDFPLUMBER \in BOOLEAN
    /\ doc \in DocsOver(CliTexts, MaxCliPages)
    /\ file0 \in {None, Some(OldContent)}
    /\ args \in [backend : {"auto", "pymupdf", "pdfplumber"},
                 start : {None}, end : {None},
                 section : {None, Some(<<"3", ".", "2">>)},
                 search_start : {None}, search_end : {None},
                 output : {None, Some(OutputPath)},
                 format : {"text"}, no_page_numbers : {FALSE}]

\* the page range and the section options,
InitCliRange ==
    /\ path_exists = TRUE
    /\ HAS_PYMUPDF = TRUE
    /\ HAS_PDFPLUMBER \in BOOLEAN
    /\ doc \in DocsOver(CliTexts, MaxCliPages)
    /\ file0 = None
    /\ args \in [backend : {"auto"},
                 start : CliPageArgs, end : CliPageArgs,
                 section : CliSections,
                 search_start : CliPageArgs, search_end : CliPageArgs,
                 output : {None},
                 format : {"text"}, no_page_numbers : {FALSE}]

\* or the output options.
InitCliOutput ==
    /\ path_exists = TRUE
    /\ HAS_PYMUPDF = TRUE
    /\ HAS_PDFPLUMBER = TRUE
    /\ doc \in DocsOver(CliTexts, MaxCliPages)
    /\ file0 \in {None, Some(OldContent)}
    /\ args \in [backend : {"pymupdf", "pdfplumber"},
                 start : {None}, end : {None},
                 section : {None, Some(<<"3", ".", "2">>)},
                 search_start : {None}, search_end : {None},
                 output : {None, Some(OutputPath)},
                 format : {"text", "markdown", "json"},
                 no_page_numbers : BOOLEAN]

Init ==
    /\ InitCliEnvironment \/ InitCliRange \/ InitCliOutput
    /\ backend = "unset"
    /\ handles = 0
    /\ ext = ExtIdle
    /\ fnd = FndIdle
    /\ main = MainStart
    /\ stdout = <<>>
    /\ outfile = file0
    /\ exit_code = None

Next ==
    \/ MainConstruct
    \/ MainSectionSearch
    \/ MainSectionFound
    \/ MainSectionNotFound
    \/ MainDirectRange
    \/ MainExtract
    \/ MainFormat
    \/ MainWrite
    \/ MainWriteRaise
    \/ MainExcept
    \/ FindSectionExtract
    \/ FindSectionScan
    \/ FindSectionRaise
    \/ ExtractPagesDispatch
    \/ PymupdfImportError
    \/ PymupdfOpen
    \/ PymupdfPage
    \/ PymupdfPageRaise
    \/ PymupdfClose
    \/ PdfplumberImportError
    \/ PdfplumberOpen
    \/ PdfplumberPage
    \/ PdfplumberPageRaise
    \/ PdfplumberClose

Spec == Init /\ [][Next]_vars

(***************************************************************************)
(* Vocabulary of the properties, stated on the document itself.            *)
(***************************************************************************)
\* the first page number a range start denotes (unset or 0: the first page)
FirstOf(start_page) == IF IntTruthy(start_page) THEN start_page[1] ELSE 1

\* the last page number a range end denotes (unset or 0: the last page)
LastOf(end_page) ==
    IF IntTruthy(end_page) THEN Min(end_page[1], Len(doc)) ELSE Len(doc)

\* the page numbers of the range (start_page, end_page) of the document
PagesIn(start_page, end_page) ==
    {n \in 1..Len(doc) : FirstOf(start_page) <= n /\ n <= LastOf(end_page)}

\* the page records of the range (start_page, end_page) of the document
RecordsIn(start_page, end_page) ==
    LET lo == FirstOf(start_page)
        hi == LastOf(end_page)
    IN  [i \in 1..Max(hi - lo + 1, 0) |-> [page_number |-> lo + i - 1,
                                           text |-> doc[lo + i - 1]]]

\* the text has a line that, trimmed, begins with an ASCII digit and whose
\* first whitespace-delimited token differs from the label
DigitLineOtherThan(text, label) ==
    LET lines == SplitLines(text)
    IN  \E k \in 1..Len(lines) :
            LET t == Strip(lines[k])
            IN  /\ Len(t) > 0
                /\ t[1] \in Digits
                /\ Split(t)[1] # label

\* p is the first page of the set that contains the label
FirstLabelPage(S, label, p) ==
    /\ p \in S
    /\ Contains(label, doc[p])
    /\ \A n \in S : n < p => ~Contains(label, doc[n])

\* q is the first page of the set after p with a digit-leading line whose
\* first token differs from the label
FirstNextPage(S, label, p, q) ==
    /\ q \in S
    /\ q > p
    /\ DigitLineOtherThan(doc[q], label)
    /\ \A n \in S : (p < n /\ n < q) => ~DigitLineOtherThan(doc[n], label)

\* the pages searched by the running find_section call
Searched == PagesIn(fnd.start_page, fnd.end_page)

SetMax(S) == CHOOSE n \in S : \A m \in S : m <= n

(***************************************************************************)
(* C1.  extract_pages(start, end) on either backend, for a range of        *)
(* positive page numbers inside the document with start <= end (each bound *)
(* may be unset), returns min(end, page_count) - max(start-1, 0) records   *)
(* whose page numbers ascend contiguously from start (from 1 when start is *)
(* unset); an unset end means through the last page.                       *)
(***************************************************************************)
C1_InsideDocument ==
    /\ ext.start_page = None \/ ext.start_page[1] \in 1..Len(doc)
    /\ ext.end_page = None \/ ext.end_page[1] \in 1..Len(doc)
    /\ (ext.start_page # None /\ ext.end_page # None)
           => ext.start_page[1] <= ext.end_page[1]

C1_RangeLengthAndNumbers ==
    (ext.pc = "returned" /\ C1_InsideDocument) =>
        LET first == IF ext.start_page = None THEN 1 ELSE ext.start_page[1]
            last == IF ext.end_page = None THEN Len(doc) ELSE ext.end_page[1]
        IN  /\ Len(ext.pages) = Min(last, Len(doc)) - Max(first - 1, 0)
            /\ \A i \in 1..Len(ext.pages) :
                   ext.pages[i].page_number = first + i - 1
            /\ (ext.end_page = None /\ Len(ext.pages) > 0) =>
                   ext.pages[Len(ext.pages)].page_number = Len(doc)

C1_Witness ==
    /\ ext.pc = "returned"
    /\ backend = "pdfplumber"
    /\ ext.start_page = Some(2)
    /\ ext.end_page = Some(3)
    /\ Len(doc) = 3
    /\ Len(ext.pages) = 2

(***************************************************************************)
(* C2.  The handle opened by an extract_pages call is released before the  *)
(* call returns or raises: no handle is open outside the page loops, and   *)
(* at most one handle is ever open.                                        *)
(***************************************************************************)
C2_HandleReleasedOnEveryExit ==
    /\ ext.pc \notin {"pymupdf_loop", "pdfplumber_loop"} => handles = 0
    /\ handles <= 1

(***************************************************************************)
(* C3.  When p is the first searched page containing the label and q the   *)
(* first searched page after p with a digit-leading line whose first token *)
(* differs from the label, find_section returns (p, q-1); lines of page p  *)
(* itself never end the section.                                           *)
(***************************************************************************)
C3_NextSectionEndsMatch ==
    fnd.pc = "returned" =>
        \A p \in Searched, q \in Searched :
            (/\ FirstLabelPage(Searched, fnd.section_pattern, p)
             /\ FirstNextPage(Searched, fnd.section_pattern, p, q))
                => fnd.result = <<p, q - 1>>

C3_Witness ==
    /\ fnd.pc = "returned"
    /\ doc = FixtureDoc
    /\ fnd.section_pattern = <<"3", ".", "2">>
    /\ FirstLabelPage(Searched, fnd.section_pattern, 5)
    /\ FirstNextPage(Searched, fnd.section_pattern, 5, 6)
    /\ fnd.result = <<5, 5>>

(***************************************************************************)
(* C4.  When p is the first searched page containing the label and no      *)
(* later searched page has a digit-leading line whose first token differs  *)
(* from the label, find_section returns (p, L), L the last searched page.  *)
(***************************************************************************)
C4_MatchRunsToLastPage ==
    fnd.pc = "returned" =>
        \A p \in Searched :
            (/\ FirstLabelPage(Searched, fnd.section_pattern, p)
             /\ \A n \in Searched :
                    n > p => ~DigitLineOtherThan(doc[n], fnd.section_pattern))
                => fnd.result = <<p, SetMax(Searched)>>

C4_Witness ==
    /\ fnd.pc = "returned"
    /\ Len(doc) = 3
    /\ fnd.start_page = Some(2)
    /\ fnd.section_pattern = <<"3", ".", "2">>
    /\ FirstLabelPage(Searched, fnd.section_pattern, 3)
    /\ fnd.result = <<3, 3>>

(***************************************************************************)
(* C5.  When no searched page contains the label (also when no page is     *)
(* searched), find_section returns None without raising, and the run in    *)
(* section mode exits with code 1 without reaching the extraction, the     *)
(* formatting or the writing step.                                         *)
(***************************************************************************)
C5_LabelAbsent ==
    /\ (/\ fnd.pc = "returned"
        /\ \A n \in Searched : ~Contains(fnd.section_pattern, doc[n]))
           => (fnd.result = None /\ fnd.error = "")
    /\ (/\ StrTruthy(args.section)
        /\ \A n \in PagesIn(args.search_start, args.search_end) :
               ~Contains(args.section[1], doc[n]))
           => /\ main.pc \notin {"ranged", "extracting", "formatted"}
              /\ stdout = <<>>
              /\ outfile = file0
              /\ (main.pc = "exited" /\ main.error = "")
                     => /\ exit_code = Some(1)
                        /\ main.start_page = None
                        /\ main.pages = <<>>
                        /\ main.output = <<>>

C5_Witness ==
    /\ StrTruthy(args.section)
    /\ PagesIn(args.search_start, args.search_end) # {}
    /\ \A n \in PagesIn(args.search_start, args.search_end) :
           ~Contains(args.section[1], doc[n])
    /\ main.pc = "exited"
    /\ main.error = ""
    /\ exit_code = Some(1)

C5_WitnessEmptyRange ==
    /\ StrTruthy(args.section)
    /\ PagesIn(args.search_start, args.search_end) = {}
    /\ main.pc = "exited"
    /\ main.error = ""
    /\ exit_code = Some(1)

(***************************************************************************)
(* C6.  When the input path does not exist, the constructor raises         *)
(* FileNotFoundError before a backend is selected or a document opened,    *)
(* the run exits with code 1, and the --output file is left as it was.     *)
(***************************************************************************)
C6_MissingInputFile ==
    ~path_exists =>
        /\ backend = "unset"
        /\ handles = 0
        /\ ext.pc = "idle"
        /\ fnd.pc = "idle"
        /\ stdout = <<>>
        /\ outfile = file0
        /\ main.pc \in {"start", "raised", "exited"}
        /\ main.pc # "start" => main.error = "FileNotFoundError"
        /\ main.pc = "exited" => exit_code = Some(1)

C6_Witness ==
    /\ ~path_exists
    /\ main.pc = "exited"
    /\ exit_code = Some(1)
    /\ args.output = Some(OutputPath)
    /\ file0 = None
    /\ outfile = None
    /\ ~HAS_PYMUPDF
    /\ ~HAS_PDFPLUMBER

(***************************************************************************)
(* C7.  The payload is written only after the whole requested range has    *)
(* been extracted and formatted; a run in which the construction, the      *)
(* section search, the extraction or the formatting raises exits with code *)
(* 1 having written nothing; a run exits with code 0 exactly when the full *)
(* payload was written.                                                    *)
(***************************************************************************)
NothingWritten == stdout = <<>> /\ outfile = file0

PayloadWritten ==
    IF StrTruthy(args.output)
    THEN outfile = Some(main.output) /\ stdout = <<>>
    ELSE stdout = main.output \o <<"\n">> /\ outfile = file0

C7_AllOrNothingOutput ==
    /\ main.pc \in {"start", "constructed", "finding", "ranged", "extracting",
                    "formatted"} => (NothingWritten /\ exit_code = None)
    /\ (main.pc = "raised" /\ main.error # "OSError") => NothingWritten
    /\ main.pc = "exited" =>
          /\ exit_code \in {Some(0), Some(1)}
          /\ (exit_code = Some(0)) <=> PayloadWritten
          /\ exit_code = Some(0) =>
                /\ main.error = ""
                /\ main.pages = RecordsIn(main.start_page, main.end_page)
                /\ main.output =
                       FormatOutput(main.pages, args.format, args.no_page_numbers)
          /\ main.error \notin {"", "OSError"} =>
                (exit_code = Some(1) /\ NothingWritten)

C7_Witness ==
    /\ main.pc = "exited"
    /\ exit_code = Some(1)
    /\ main.error = "ExtractionError"
    /\ args.output = Some(OutputPath)
    /\ file0 = Some(OldContent)
    /\ Len(doc) = 2
    /\ NothingWritten

C7_WitnessSuccess ==
    /\ main.pc = "exited"
    /\ exit_code = Some(0)
    /\ args.output = Some(OutputPath)
    /\ args.format = "json"
    /\ Len(main.pages) = 2
    /\ PayloadWritten

(***************************************************************************)
(* C8.  With backend preference "auto" and an existing input file, the     *)
(* constructor selects pymupdf whenever it is installed, pdfplumber only   *)
(* when pymupdf is absent and pdfplumber installed, and raises the         *)
(* no-library error when neither is installed; a backend selected by       *)
(* "auto" is an installed one.                                             *)
(***************************************************************************)
C8_AutoBackend ==
    (args.backend = "auto" /\ path_exists /\ main.pc # "start") =>
        /\ HAS_PYMUPDF => backend = "pymupdf"
        /\ (~HAS_PYMUPDF /\ HAS_PDFPLUMBER) => backend = "pdfplumber"
        /\ (~HAS_PYMUPDF /\ ~HAS_PDFPLUMBER) =>
               /\ backend = "unset"
               /\ main.pc \in {"raised", "exited"}
               /\ main.error = "RuntimeError"
        /\ backend = "pymupdf" => HAS_PYMUPDF
        /\ backend = "pdfplumber" => HAS_PDFPLUMBER
        /\ backend # "unset" => main.error \notin {"RuntimeError", "ImportError",
                                                   "ValueError"}

C8_Witness ==
    /\ args.backend = "auto"
    /\ path_exists
    /\ ~HAS_PYMUPDF
    /\ HAS_PDFPLUMBER
    /\ backend = "pdfplumber"
    /\ main.pc = "exited"
    /\ exit_code = Some(0)

(***************************************************************************)
(* C9.  Whenever --section is given, with any string value, the range      *)
(* extracted for output is the span find_section returns over              *)
(* (--search-start, --search-end), whatever --start and --end are.         *)
(***************************************************************************)
C9_SectionTakesPrecedence ==
    (args.section # None /\ main.pc = "ranged") =>
        LET span == ScanPages(RecordsIn(args.search_start, args.search_end),
                              1, None, args.section[1])
        IN  /\ span # None
            /\ main.start_page = Some(span[1])
            /\ main.end_page = Some(span[2])

(***************************************************************************)
(* C10.  A match (s, e) returned by find_section has s <= e, both page     *)
(* numbers of searched pages, and page s contains the label; extracting    *)
(* (s, e) again yields a non-empty sequence beginning with that page.      *)
(***************************************************************************)
C10_MatchWithinSearchedPages ==
    /\ (fnd.pc = "returned" /\ fnd.result # None) =>
          /\ Len(fnd.result) = 2
          /\ fnd.result[1] <= fnd.result[2]
          /\ fnd.result[1] \in Searched
          /\ fnd.result[2] \in Searched
          /\ Contains(fnd.section_pattern, doc[fnd.result[1]])
    /\ (StrTruthy(args.section) /\ main.pc = "formatted") =>
          /\ Len(main.pages) >= 1
          /\ main.pages[1].page_number = main.start_page[1]
          /\ Contains(args.section[1], main.pages[1].text)
          /\ main.pages[Len(main.pages)].page_number = main.end_page[1]

C10_Witness ==
    /\ StrTruthy(args.section)
    /\ main.pc = "formatted"
    /\ args.search_start = Some(2)
    /\ main.start_page = Some(2)
    /\ main.end_page = Some(2)
    /\ Len(main.pages) = 1

====
